---- MODULE Spec2Model ----
(***************************************************************************)
(* OrthoView: a Qt widget that maps camera-image pixels onto a plane.      *)
(* The model follows src/OrthoView.py as shipped (isTest = True): the      *)
(* state is the widgets' fields, one action per Qt handler.                *)
(*                                                                         *)
(* Conventions                                                             *)
(*   - a point is a tuple <<x, y>> of integers; Python's None is <<>>;     *)
(*   - a float is an exact rational <<n, d>>, d > 0, in lowest terms       *)
(*     (binary rounding of float32/float64 is not modelled);               *)
(*   - a 3x3 matrix is a tuple of three rows; a perspective transform is   *)
(*     kept as <<pIn, pOut, M>>: the two point lists given to              *)
(*     cv2.getPerspectiveTransform and the matrix it returned, up to a     *)
(*     common factor of its entries;                                       *)
(*   - an attribute that has not been assigned yet is <<>>.                *)
(***************************************************************************)
EXTENDS Integers, Sequences, FiniteSets, TLC

(* ------------------------------ bounds -------------------------------- *)
\* width and height of the camera frame read by getFrame
FrameW == 4
FrameH == 3
\* in how many of the four slots the operator hits, besides the corner of the
\* reference rectangle, a second position
NumAlt == 2
\* how many click positions there are when only the corner definition is
\* followed (SpecCorners)
NumWidePts == 6
\* how many of them the operator may define the beam position at
NumBeamPts == 1
\* corner clicks (setCorner calls) followed in one session
MaxClicks == 4
\* the spin box yields 0..MaxScale (mm)
MaxScale == 1
\* the handlers are followed while the displayed image is at most this wide/high
MaxDim == 20
\* the spin box yields 1..MaxWideScale (mm) when only the scale edits and the
\* toggle are followed (SpecSize)
MaxWideScale == 3
\* how many values a colour channel of a camera pixel takes (SpecPack)
NumBytes == 5
\* how many different frames the camera delivers (SpecCam)
NumCamPixels == 3

PtList == << <<1, 1>>, <<3, 1>>, <<3, 2>>, <<1, 2>>, <<2, 2>>, <<2, 0>> >>
FirstPts(n) == {PtList[i] : i \in 1..(IF n < Len(PtList) THEN n ELSE Len(PtList))}
\* the second position of each slot: (2,2) lies on the line of corners 2 and 3,
\* (3,1) is corner 1 again
AltList == << <<2, 2>>, <<2, 0>>, <<3, 1>>, <<2, 2>> >>
\* the positions the operator hits while slot c (0-based) awaits its corner
Aim(c) ==
    IF c \in 0..3
    THEN {PtList[c + 1]} \cup (IF c < NumAlt THEN {AltList[c + 1]} ELSE {})
    ELSE {PtList[1]}
WidePts == FirstPts(NumWidePts)
BeamPts == FirstPts(NumBeamPts)
ScaleVals == 0..MaxScale
WideScaleVals == 1..MaxWideScale
ByteList == <<0, 255, 1, 128, 127, 254, 16, 64>>
PixelList == << <<255, 1, 128>>, <<0, 255, 1>>, <<1, 1, 1>>, <<128, 0, 255>> >>
CamPixels ==
    {PixelList[i] : i \in 1..(IF NumCamPixels < Len(PixelList) THEN NumCamPixels
                               ELSE Len(PixelList))}
ByteVals == {ByteList[i] : i \in 1..(IF NumBytes < Len(ByteList) THEN NumBytes ELSE Len(ByteList))}

None == <<>>
Unset == <<>>

(* --------------------------- small helpers ---------------------------- *)
Abs(a) == IF a < 0 THEN -a ELSE a

RECURSIVE GCD(_, _)
GCD(a, b) == IF b = 0 THEN Abs(a) ELSE GCD(b, a % Abs(b))

\* the rational n/d (d # 0) in lowest terms with a positive denominator
Rat(n, d) ==
    LET g == GCD(n, d)
        s == IF d < 0 THEN -1 ELSE 1
    IN  << (s * n) \div g, (s * d) \div g >>

RatSub(a, b) == Rat(a[1] * b[2] - b[1] * a[2], a[2] * b[2])
RatNeg(a) == << -a[1], a[2] >>
\* a / b for b # 0
RatDiv(a, b) == Rat(a[1] * b[2], a[2] * b[1])
\* math.floor of a rational (the denominator is positive)
Floor(a) == a[1] \div a[2]
\* Python's int() of a non-negative float: truncation
IntOf(a) == IF a[1] >= 0 THEN a[1] \div a[2] ELSE -((-a[1]) \div a[2])

(* ------------------ Python list operations on corners ----------------- *)
\* "None not in corners"
NoneNotIn(cs) == \A i \in 1..Len(cs) : cs[i] # None

\* 0-based index of the last None
IndexOfLastNone(cs, i) ==
    IF NoneNotIn(cs) THEN -1
    ELSE (CHOOSE j \in 1..Len(cs) :
            cs[j] = None /\ \A k \in (j + 1)..Len(cs) : cs[k] # None) - 1

\* corners.index(None): 0-based index of the first None
RECURSIVE IndexOfNone(_, _)
IndexOfNone(cs, i) ==
    IF i > Len(cs) THEN -1
    ELSE IF cs[i] = None THEN i - 1 ELSE IndexOfNone(cs, i + 1)

\* lst[i] = v with Python's indexing (0-based, negative counts from the end)
PyIndex(cs, i) == IF i < 0 THEN i + Len(cs) + 1 ELSE i + 1
\* an assignment that also empties the slots behind i
PySetClearingRest(cs, i, v) ==
    [j \in 1..Len(cs) |-> IF j = PyIndex(cs, i) THEN v
                          ELSE IF j > PyIndex(cs, i) THEN None ELSE cs[j]]

PySet(cs, i, v) == [cs EXCEPT ![PyIndex(cs, i)] = v]

\* sorted(lst, key=lambda p: p[k]) : stable, ascending (k is 0-based in Python)
RECURSIVE InsertByKey(_, _, _)
InsertByKey(srt, p, k) ==
    IF srt = <<>> THEN <<p>>
    ELSE IF p[k] < Head(srt)[k] THEN <<p>> \o srt
    ELSE <<Head(srt)>> \o InsertByKey(Tail(srt), p, k)

RECURSIVE SortedByKey(_, _)
SortedByKey(lst, k) ==
    IF lst = <<>> THEN <<>>
    ELSE InsertByKey(SortedByKey(SubSeq(lst, 1, Len(lst) - 1), k), lst[Len(lst)], k)

\* the re-ordering with the bottom pair stored left point first
CanonicalizeBottomLeftFirst(cs) ==
    LET srtPts == SortedByKey(cs, 2)
        st == SortedByKey(SubSeq(srtPts, 1, 2), 1)
        sb == SortedByKey(SubSeq(srtPts, 3, 4), 1)
    IN  <<st[1], st[2], sb[1], sb[2]>>

\* setCorner, lines 301-305: the re-ordering of the four collected points
Canonicalize(cs) ==
    LET srtPts == SortedByKey(cs, 2)
        topPts == SubSeq(srtPts, 1, 2)
        bottomPts == SubSeq(srtPts, 3, 4)
        st == SortedByKey(topPts, 1)
        sb == SortedByKey(bottomPts, 1)
        spt1 == st[1]
        spt2 == st[2]
        spt4 == sb[1]
        spt3 == sb[2]
    IN  <<spt1, spt2, spt3, spt4>>

(* ------------------------- projective geometry ------------------------ *)
\* twice the signed area of the triangle a, b, c: 0 iff collinear or coincident
Cross(a, b, c) == (b[1] - a[1]) * (c[2] - a[2]) - (b[2] - a[2]) * (c[1] - a[1])

\* no three of the four points are collinear (or coincident)
GeneralPosition(q) ==
    /\ Cross(q[1], q[2], q[3]) # 0
    /\ Cross(q[1], q[2], q[4]) # 0
    /\ Cross(q[1], q[3], q[4]) # 0
    /\ Cross(q[2], q[3], q[4]) # 0

Row(a, b, c) == <<a, b, c>>
Dot(r, v) == r[1] * v[1] + r[2] * v[2] + r[3] * v[3]
Col(m, j) == <<m[1][j], m[2][j], m[3][j]>>

\* a projective matrix divided by g, the gcd of its entries
MatDiv(m, g) ==
    IF g = 0 THEN m
    ELSE << Row(m[1][1] \div g, m[1][2] \div g, m[1][3] \div g),
            Row(m[2][1] \div g, m[2][2] \div g, m[2][3] \div g),
            Row(m[3][1] \div g, m[3][2] \div g, m[3][3] \div g) >>

MatNorm(m) ==
    MatDiv(m, GCD(GCD(GCD(GCD(m[1][1], m[1][2]), GCD(m[1][3], m[2][1])),
                      GCD(GCD(m[2][2], m[2][3]), GCD(m[3][1], m[3][2]))), m[3][3]))

MatMul(a, b) ==
    LET c1 == Col(b, 1)
        c2 == Col(b, 2)
        c3 == Col(b, 3)
    IN  MatNorm(<< Row(Dot(a[1], c1), Dot(a[1], c2), Dot(a[1], c3)),
                   Row(Dot(a[2], c1), Dot(a[2], c2), Dot(a[2], c3)),
                   Row(Dot(a[3], c1), Dot(a[3], c2), Dot(a[3], c3)) >>)

\* adjugate: the inverse up to a scalar factor
Adj(m) ==
    MatNorm(<<
      Row(m[2][2] * m[3][3] - m[2][3] * m[3][2],
          m[1][3] * m[3][2] - m[1][2] * m[3][3],
          m[1][2] * m[2][3] - m[1][3] * m[2][2]),
      Row(m[2][3] * m[3][1] - m[2][1] * m[3][3],
          m[1][1] * m[3][3] - m[1][3] * m[3][1],
          m[1][3] * m[2][1] - m[1][1] * m[2][3]),
      Row(m[2][1] * m[3][2] - m[2][2] * m[3][1],
          m[1][2] * m[3][1] - m[1][1] * m[3][2],
          m[1][1] * m[2][2] - m[1][2] * m[2][1]) >>)

\* the projective map taking the unit square (0,0),(1,0),(1,1),(0,1) to the
\* quadrilateral q, scaled to integer entries
SquareToQuad(q) ==
    LET x0 == q[1][1]  y0 == q[1][2]
        x1 == q[2][1]  y1 == q[2][2]
        x2 == q[3][1]  y2 == q[3][2]
        x3 == q[4][1]  y3 == q[4][2]
        dx1 == x1 - x2  dy1 == y1 - y2
        dx2 == x3 - x2  dy2 == y3 - y2
        sx == x0 - x1 + x2 - x3
        sy == y0 - y1 + y2 - y3
        D == dx1 * dy2 - dx2 * dy1
        G == sx * dy2 - dx2 * sy
        H == dx1 * sy - sx * dy1
    IN  MatNorm(<<
          Row(D * (x1 - x0) + G * x1, D * (x3 - x0) + H * x3, D * x0),
          Row(D * (y1 - y0) + G * y1, D * (y3 - y0) + H * y3, D * y0),
          Row(G, H, D) >>)

\* what cv::solve leaves when the 8x8 system is singular: all unknowns 0, M[2][2] = 1
ZeroH == << Row(0, 0, 0), Row(0, 0, 0), Row(0, 0, 1) >>

\* the line through a and b as a row vector l with l.(x, y, 1) = 0 on the line
LineThrough(a, b) == Row(a[2] - b[2], b[1] - a[1], a[1] * b[2] - b[1] * a[2])

\* index of the point of q off the line carrying the three others, which are
\* pairwise distinct; 0 when q is not of that shape
OffLineIndex(q) ==
    LET others(k) == SelectSeq(<<1, 2, 3, 4>>, LAMBDA i : i # k)
        fits(k) == LET o == others(k)
                   IN  /\ Cross(q[o[1]], q[o[2]], q[o[3]]) = 0
                       /\ q[o[1]] # q[o[2]] /\ q[o[1]] # q[o[3]] /\ q[o[2]] # q[o[3]]
                       /\ Cross(q[o[1]], q[o[2]], q[k]) # 0
    IN  IF fits(1) THEN 1 ELSE IF fits(2) THEN 2 ELSE IF fits(3) THEN 3
        ELSE IF fits(4) THEN 4 ELSE 0

\* cv2.getPerspectiveTransform(pIn, pOut) as a matrix: the solution with
\* M[2][2] = 1 of the 8 equations M.(x_i, y_i, 1) ~ (X_i, Y_i, 1), when it is
\* unique; the zero fill of a singular solve otherwise. The matrix is kept up to
\* a common factor (PerspectiveTransform divides by the third coordinate).
\* a solution whose M[2][2] cannot be scaled to 1 is no solution
Solved(m) == IF m[3][3] = 0 THEN ZeroH ELSE m

\* the outer product of the column r and the row l
Outer(r, l) ==
    MatNorm(<< Row(r[1] * l[1], r[1] * l[2], r[1] * l[3]),
               Row(r[2] * l[1], r[2] * l[2], r[2] * l[3]),
               Row(r[3] * l[1], r[3] * l[2], r[3] * l[3]) >>)

\* three distinct collinear sources and the k-th off their line: the rank-1
\* solution r_k . l
RankOne(pIn, pOut, k, o) ==
    Solved(Outer(<<pOut[k][1], pOut[k][2], 1>>, LineThrough(pIn[o[1]], pIn[o[2]])))

HMatrixAt(pIn, pOut, k) ==
    IF GeneralPosition(pIn) /\ GeneralPosition(pOut)
    THEN Solved(MatMul(SquareToQuad(pOut), Adj(SquareToQuad(pIn))))
    ELSE IF GeneralPosition(pOut) /\ k # 0
    THEN RankOne(pIn, pOut, k, SelectSeq(<<1, 2, 3, 4>>, LAMBDA i : i # k))
    ELSE ZeroH

HMatrix(pIn, pOut) == HMatrixAt(pIn, pOut, OffLineIndex(pIn))

GetPerspectiveTransform(pIn, pOut) == <<pIn, pOut, HMatrix(pIn, pOut)>>

\* cv2.perspectiveTransform of one integer point: a pair of rationals;
\* a zero third coordinate yields (0, 0)
Dehomogenize(x, y, w) ==
    IF w = 0 THEN << <<0, 1>>, <<0, 1>> >> ELSE << Rat(x, w), Rat(y, w) >>

MatVec(m, v) == Dehomogenize(Dot(m[1], v), Dot(m[2], v), Dot(m[3], v))

PerspectiveTransform(p, t) == MatVec(t[3], <<p[1], p[2], 1>>)

\* cv2.boundingRect of float points: (x, y, width, height) with
\* x = floor(min x), width = floor(max x) - floor(min x) + 1
SetMin(S) == CHOOSE a \in S : \A b \in S : a <= b
SetMax(S) == CHOOSE a \in S : \A b \in S : a >= b
RectOfSpan(x0, y0, x1, y1) == << x0, y0, x1 - x0 + 1, y1 - y0 + 1 >>
RectOfFloors(fx, fy) == RectOfSpan(SetMin(fx), SetMin(fy), SetMax(fx), SetMax(fy))

BoundingRectOf(ps) ==
    RectOfFloors({Floor(ps[i][1]) : i \in 1..Len(ps)},
                 {Floor(ps[i][2]) : i \in 1..Len(ps)})

(* ------------------------------- state -------------------------------- *)
VARIABLES
    corners,            \* buttonBaseRect.corners: four slots, None or a point
    currentDefCorner,   \* buttonBaseRect.currentDefCorner
    baseChecked,        \* buttonBaseRect.isChecked()
    baseEnabled,        \* buttonBaseRect.isEnabled()
    straightChecked,    \* buttonStraightRect.isChecked(): the rectified-view toggle
    straightEnabled,    \* buttonStraightRect.isEnabled()
    scaleX,             \* buttonScaleX.scale
    scaleY,             \* buttonScaleY.scale
    beamPos,            \* plotCanvas.beamPos
    mouseClickPos,      \* plotCanvas.mouseClickPos
    img,                \* OrthoView.img as <<width, height, warp>>: its shape and
                        \* the transform it was warped with (Unset: a camera frame)
    eng,                \* the attributes getTransform assigns
    last,               \* history: what the last handler did
    nClicks,            \* history: setCorner calls so far
    config,             \* the ConfigParser object, as last written to OrthoView.ini
    cam                 \* the camera server and its client: the frame read, the
                        \* packed image attribute, the client's unpacked pixel

vars == << corners, currentDefCorner, baseChecked, baseEnabled, straightChecked,
           straightEnabled, scaleX, scaleY, beamPos, mouseClickPos, img, eng,
           last, nClicks, config, cam >>

\* the fields of the OrthoView window
guiVars == << corners, currentDefCorner, baseChecked, baseEnabled, straightChecked,
              straightEnabled, scaleX, scaleY, beamPos, mouseClickPos, img, eng,
              last, nClicks, config >>

\* OrthoView.__init__ line 456 sets beamPosRectified; the other attributes
\* come into being in getTransform. "scales" records the locals dX, dY read at
\* line 625 (history only).
EngNone ==
    [ zoom |-> Unset, perspectiveTransform1 |-> Unset, boundingRect |-> Unset,
      beamPosRectified |-> << <<0, 1>>, <<0, 1>> >>, targetRect |-> Unset,
      perspectiveTransform2 |-> Unset, scales |-> Unset ]

\* the camera frame getFrame returns, lines 518-549
Frame == <<FrameW, FrameH, Unset>>

(* ---------------------------- OrthoView ------------------------------- *)
\* canTransform without the test of the Y scale
CanTransformIgnoringY(cs, sx, sy) == NoneNotIn(cs) /\ sx > 0

\* canTransform, lines 619-621
CanTransform(cs, sx, sy) == NoneNotIn(cs) /\ sx > 0 /\ sy > 0

canTransform == CanTransform(corners, scaleX, scaleY)

\* transformPoint, lines 646-648: the shift by the bounding rectangle's origin
ShiftBy(outPoint, bR) ==
    << RatSub(outPoint[1], <<bR[1], 1>>), RatSub(outPoint[2], <<bR[2], 1>>) >>

\* transformPoint, lines 644-648, reading perspectiveTransform1 = t1 and
\* boundingRect = bR
TransformPointWith(p, t1, bR) == ShiftBy(PerspectiveTransform(p, t1), bR)

\* transformPoint on the attributes held in e
TransformPoint(p, e) == TransformPointWith(p, e.perspectiveTransform1, e.boundingRect)

\* line 626
ZoomOf(dX2, dX) == Rat(dX2, dX)

\* the six assignments of lines 626-642 all made: no call raised
NoFault == 6

\* The exception getTransform raises by itself: a zero X scale divides by zero at
\* line 626 (stage 0: nothing assigned yet); a None corner is rejected by
\* np.float32(pIn) at line 631 (stage 1: zoom is assigned).
NaturalFault(cs, sx) ==
    IF sx = 0 THEN [stage |-> 0, raised |-> "ZeroDivisionError"]
    ELSE IF ~NoneNotIn(cs) THEN [stage |-> 1, raised |-> "TypeError"]
    ELSE [stage |-> NoFault, raised |-> ""]

\* Stages at which a cv2 call of getTransform may raise, and how many of the
\* assignments (zoom, perspectiveTransform1, boundingRect, beamPosRectified,
\* targetRect, perspectiveTransform2) precede each:
\*   1: getPerspectiveTransform, line 631    2: perspectiveTransform/boundingRect,
\*   lines 635-637    3: transformPoint, line 638    5: getPerspectiveTransform, line 641
FaultStages == {1, 2, 3, 5}

\* how many assignments getTransform completes, and the exception that ends it
StageOf(nat, f) == IF nat.stage < f THEN nat.stage ELSE f
RaisedOf(nat, f) ==
    IF nat.stage < f THEN nat.raised ELSE IF f < NoFault THEN "cv2.error" ELSE ""

\* the attributes e after the first `stage` assignments of lines 626-642
Assigned(e, stage, sc, zoom, t1, bR, bpR, tR, t2) ==
    [ zoom |-> IF stage >= 1 THEN zoom ELSE e.zoom,
      scales |-> IF stage >= 1 THEN sc ELSE e.scales,
      perspectiveTransform1 |-> IF stage >= 2 THEN t1 ELSE e.perspectiveTransform1,
      boundingRect |-> IF stage >= 3 THEN bR ELSE e.boundingRect,
      beamPosRectified |-> IF stage >= 4 THEN bpR ELSE e.beamPosRectified,
      targetRect |-> IF stage >= 5 THEN tR ELSE e.targetRect,
      perspectiveTransform2 |-> IF stage >= 6 THEN t2 ELSE e.perspectiveTransform2 ]

\* lines 627-628: targetWidth = int(dX * zoom), targetHeight = int(dY * zoom)
TargetSize(s, zoom) == IntOf(Rat(s * zoom[1], zoom[2]))

\* lines 629-630
POutOf(dX, dY) == << <<0, 0>>, <<dX, 0>>, <<dX, dY>>, <<0, dY>> >>

\* line 634
InCorners(dX2, dY2) == << <<0, 0>>, <<dX2, 0>>, <<dX2, dY2>>, <<0, dY2>> >>

\* line 635: the four image corners through perspectiveTransform1
OutCorners(ic, t1) ==
    << PerspectiveTransform(ic[1], t1), PerspectiveTransform(ic[2], t1),
       PerspectiveTransform(ic[3], t1), PerspectiveTransform(ic[4], t1) >>

\* a target rectangle left where pOut has it
TargetRectUnshifted(pOut, bR) == pOut

\* lines 639-640: the target rectangle moved by the bounding rectangle's origin
TargetRectOf(pOut, bR) ==
    << <<pOut[1][1] - bR[1], pOut[1][2] - bR[2]>>,
       <<pOut[2][1] - bR[1], pOut[2][2] - bR[2]>>,
       <<pOut[3][1] - bR[1], pOut[3][2] - bR[2]>>,
       <<pOut[4][1] - bR[1], pOut[4][2] - bR[2]>> >>

\* lines 638-642, once boundingRect = bR is known
FromBoundingRect(e, stage, cs, sx, sy, bp, zoom, pOut, t1, bR) ==
    Assigned(e, stage, <<sx, sy>>, zoom, t1, bR, TransformPointWith(bp, t1, bR),
             TargetRectOf(pOut, bR),
             GetPerspectiveTransform(cs, TargetRectOf(pOut, bR)))

\* lines 634-642, once perspectiveTransform1 = t1 is known
FromTransform1(e, stage, cs, sx, sy, bp, im, zoom, pOut, t1) ==
    FromBoundingRect(e, stage, cs, sx, sy, bp, zoom, pOut, t1,
                     BoundingRectOf(OutCorners(InCorners(im[1], im[2]), t1)))

\* lines 631-642, once pOut is known
FromPOut(e, stage, cs, sx, sy, bp, im, zoom, pOut) ==
    FromTransform1(e, stage, cs, sx, sy, bp, im, zoom, pOut,
                   GetPerspectiveTransform(cs, pOut))

\* lines 627-642, once zoom is known
FromZoom(e, stage, cs, sx, sy, bp, im, zoom) ==
    FromPOut(e, stage, cs, sx, sy, bp, im, zoom,
             POutOf(TargetSize(sx, zoom), TargetSize(sy, zoom)))

\* getTransform, lines 623-642. f = NoFault: every cv2 call returns; f in FaultStages:
\* the call at that stage raises cv2.error. The result holds the attributes
\* after the call and the exception that left it, "" for a normal return.
\* dY2, dX2 = self.img.shape[:2] is im; dX, dY are the scales sx, sy.
GetTransform(e, cs, sx, sy, bp, im, f) ==
    [ eng |-> FromZoom(e, StageOf(NaturalFault(cs, sx), f), cs, sx, sy, bp, im,
                       ZoomOf(im[1], sx)),
      raised |-> RaisedOf(NaturalFault(cs, sx), f) ]

\* updateFrame, lines 551-562: getFrame stores the camera frame; in the rectified
\* branch img becomes the warped canvas of the bounding rectangle's size. The
\* branch reads perspectiveTransform2, boundingRect, zoom, targetRect and
\* beamPosRectified: an attribute never assigned raises AttributeError.
UpdateFrame(e, cs, sx, sy, chk) ==
    LET rect == CanTransform(cs, sx, sy) /\ chk
        ready == e.perspectiveTransform2 # Unset /\ e.boundingRect # Unset
                 /\ e.zoom # Unset /\ e.targetRect # Unset
    IN  [ img |-> IF rect /\ ready
                  THEN <<e.boundingRect[3], e.boundingRect[4], e.perspectiveTransform2>>
                  ELSE Frame,
          rendered |-> rect,
          ready |-> ready,
          raised |-> IF rect /\ ~ready THEN "AttributeError" ELSE "" ]

(* ------------------------ StraightRectButton -------------------------- *)
\* update, lines 356-362: wantVisibleCorners = canTransform(); getTransform() if
\* it holds; setEnabled(wantVisibleCorners) unless getTransform raised.
\* update that leaves the enabled flag as it finds it
UpdateKeepingEnabled(wantVisibleCorners, e, en, g) ==
    IF wantVisibleCorners
    THEN [ eng |-> g.eng, raised |-> g.raised, recomputed |-> TRUE, enabled |-> en ]
    ELSE [ eng |-> e, raised |-> "", recomputed |-> FALSE, enabled |-> en ]

\* update that calls getTransform without asking canTransform
UpdateUnguarded(wantVisibleCorners, e, en, g) ==
    [ eng |-> g.eng, raised |-> g.raised, recomputed |-> TRUE,
      enabled |-> IF g.raised = "" THEN wantVisibleCorners ELSE en ]

UpdateWith(wantVisibleCorners, e, en, g) ==
    IF wantVisibleCorners
    THEN [ eng |-> g.eng, raised |-> g.raised, recomputed |-> TRUE,
           enabled |-> IF g.raised = "" THEN wantVisibleCorners ELSE en ]
    ELSE [ eng |-> e, raised |-> "", recomputed |-> FALSE,
           enabled |-> wantVisibleCorners ]

StraightUpdate(e, cs, sx, sy, bp, im, en, f) ==
    UpdateWith(CanTransform(cs, sx, sy), e, en, GetTransform(e, cs, sx, sy, bp, im, f))

\* a handler that does not call update()
NoUpdate == [eng |-> eng, raised |-> "", recomputed |-> FALSE, enabled |-> straightEnabled]

(* ------------------------------ history ------------------------------- *)
\* A transform held in e is stale for the corners cs and the scales sx, sy when
\* it was derived from other corners or other scales (or never derived).
Stale(e, cs, sx, sy) ==
    \/ e.perspectiveTransform1 = Unset
    \/ e.perspectiveTransform1[1] # cs
    \/ e.scales # <<sx, sy>>

\* all the attributes a point query or a move-to-beam request reads
Ready(e) ==
    /\ e.zoom # Unset
    /\ e.perspectiveTransform1 # Unset
    /\ e.boundingRect # Unset

Quiet(op) ==
    [ op |-> op,
      recomputed |-> FALSE,     \* getTransform was entered
      ctAtRecompute |-> TRUE,   \* canTransform() when it was entered
      uses |-> {},              \* the transform-reading steps taken: query, move, render
      ctAtUse |-> TRUE,         \* canTransform() held at each of them
      readyAtUse |-> TRUE,      \* every attribute they read had been assigned
      staleAtUse |-> FALSE,     \* one of them read a stale transform
      raised |-> "",            \* the exception that ended the handler
      engBefore |-> EngNone ]   \* eng as getTransform found it, when it raised

\* the record of a handler that ran getTransform (r: its result) and then,
\* unless it raised, updateFrame (u)
WithFrame(h, e, cs, sx, sy, u) ==
    IF u.rendered
    THEN [h EXCEPT !.uses = @ \cup {"render"},
                   !.ctAtUse = @ /\ CanTransform(cs, sx, sy),
                   !.readyAtUse = @ /\ u.ready,
                   !.staleAtUse = @ \/ Stale(e, cs, sx, sy),
                   !.raised = u.raised]
    ELSE h

WithRecompute(h, ct, r, before) ==
    [h EXCEPT !.recomputed = TRUE, !.ctAtRecompute = ct, !.raised = r.raised,
              !.engBefore = IF r.raised = "" THEN EngNone ELSE before]

\* the history as kept: the handler's name is dropped when it neither recomputed
\* nor read a transform nor completed a definition pass
Hist(h) ==
    IF h.recomputed \/ h.uses # {} \/ h.op = "setCornerLast" THEN h
    ELSE [h EXCEPT !.op = "idle"]

Bounded == img[1] <= MaxDim /\ img[2] <= MaxDim

(* ------------------------------ handlers ------------------------------ *)
\* the history of a handler h that called buttonStraightRect.update() (su) and,
\* when that returned, updateFrame (u)
AfterUpdate(h, su, before, cs, sx, sy, u, framed) ==
    LET h1 == IF su.recomputed
              THEN WithRecompute(h, CanTransform(cs, sx, sy), su, before)
              ELSE h
    IN  IF su.raised = "" /\ framed THEN WithFrame(h1, su.eng, cs, sx, sy, u) ELSE h1

\* clickedSlot that starts every definition at slot 0
BaseClickedAtZero(chk, op) ==
    LET u == UpdateFrame(eng, corners, scaleX, scaleY, straightChecked)
    IN  /\ baseChecked' = chk
        /\ currentDefCorner' = IF chk THEN 0 ELSE -1
        /\ img' = u.img
        /\ last' = Hist(WithFrame(Quiet(op), eng, corners, scaleX, scaleY, u))
        /\ UNCHANGED << cam, config, corners, baseEnabled, straightChecked, straightEnabled,
                        scaleX, scaleY, beamPos, mouseClickPos, eng, nClicks >>

\* PerspectiveRectButton.clickedSlot, lines 281-294, after the click toggled the
\* button (chk: the new check state)
BaseClickedSlot(chk, op) ==
    LET u == UpdateFrame(eng, corners, scaleX, scaleY, straightChecked)
    IN  /\ baseChecked' = chk
        /\ currentDefCorner' =
              IF chk
              THEN IF NoneNotIn(corners) THEN 0 ELSE IndexOfNone(corners, 1)
              ELSE -1
        /\ img' = u.img
        /\ last' = Hist(WithFrame(Quiet(op), eng, corners, scaleX, scaleY, u))
        /\ UNCHANGED << cam, config, corners, baseEnabled, straightChecked, straightEnabled, scaleX,
                        scaleY, beamPos, mouseClickPos, eng, nClicks >>

\* a click on the perspective-rectangle button
BaseClicked ==
    /\ Bounded
    /\ baseEnabled
    /\ BaseClickedSlot(~baseChecked, "baseClicked")

\* PerspectiveRectButton.eventFilter, lines 313-319: Escape on the focused button
BaseEscape ==
    /\ Bounded
    /\ baseEnabled
    /\ BaseClickedSlot(FALSE, "baseEscape")

\* setCorner that leaves the button checked after the fourth point
SetCornerStaysChecked(cs2, done, c1, su) ==
    LET u == UpdateFrame(su.eng, cs2, scaleX, scaleY, straightChecked)
    IN  /\ corners' = cs2
        /\ currentDefCorner' = IF done THEN 0 ELSE c1
        /\ baseChecked' = baseChecked
        /\ config' = IF done THEN [config EXCEPT !.corners = cs2] ELSE config
        /\ eng' = su.eng
        /\ straightEnabled' = su.enabled
        /\ img' = IF su.raised = "" THEN u.img ELSE img
        /\ last' = Hist(AfterUpdate(Quiet(IF done THEN "setCornerLast" ELSE "setCorner"),
                                    su, eng, cs2, scaleX, scaleY, u, TRUE))

\* setCorner, lines 306-311, with the list cs2 as stored and what
\* buttonStraightRect.update() returned (su): the fields written
SetCornerUpdated(cs2, done, c1, su) ==
    LET u == UpdateFrame(su.eng, cs2, scaleX, scaleY, straightChecked)
    IN  /\ corners' = cs2
        /\ currentDefCorner' = IF done THEN 0 ELSE c1
        /\ baseChecked' = IF done THEN FALSE ELSE baseChecked
        /\ config' = IF done THEN [config EXCEPT !.corners = cs2] ELSE config
        /\ eng' = su.eng
        /\ straightEnabled' = su.enabled
        /\ img' = IF su.raised = "" THEN u.img ELSE img
        /\ last' = Hist(AfterUpdate(Quiet(IF done THEN "setCornerLast" ELSE "setCorner"),
                                    su, eng, cs2, scaleX, scaleY, u, TRUE))

\* setCorner, lines 299-311, with the list cs1 after line 297 and the cursor c1
\* after line 298
SetCornerSorted(cs2, c1, f) ==
    SetCornerUpdated(cs2, c1 > 3, c1,
                     IF c1 > 3
                     THEN StraightUpdate(eng, cs2, scaleX, scaleY, beamPos, img,
                                         straightEnabled, f)
                     ELSE NoUpdate)

SetCornerAt(cs1, c1, f) ==
    SetCornerSorted(IF c1 > 3 THEN Canonicalize(cs1) ELSE cs1, c1, f)

\* PerspectiveRectButton.setCorner, lines 296-311
SetCorner(p, f) ==
    SetCornerAt(PySet(corners, currentDefCorner, p), currentDefCorner + 1, f)

\* MyMplCanvas.onPress, lines 194-201, for a click at image position p
OnPress(p, f) ==
    /\ Bounded
    /\ mouseClickPos' = p
    /\ IF baseChecked
       THEN /\ nClicks < MaxClicks
            /\ nClicks' = nClicks + 1
            /\ SetCorner(p, f)
       ELSE /\ f = NoFault
            /\ last' = Hist(Quiet("onPress"))
            /\ UNCHANGED << config, corners, currentDefCorner, baseChecked, eng,
                            straightEnabled, img, nClicks >>
    /\ UNCHANGED << cam, baseEnabled, straightChecked, scaleX, scaleY, beamPos >>

\* onPress, lines 195-197: a click outside the axes carries no position
OnPressOutside ==
    /\ Bounded
    /\ mouseClickPos' = None
    /\ last' = Hist(Quiet("onPressOutside"))
    /\ UNCHANGED << cam, config, corners, currentDefCorner, baseChecked, baseEnabled,
                    straightChecked, straightEnabled, scaleX, scaleY, beamPos, img,
                    eng, nClicks >>

\* StraightRectButton.clickedSlot, lines 364-367, with what getTransform
\* returned (g)
StraightClickedWith(chk, op, g) ==
    LET u == UpdateFrame(g.eng, corners, scaleX, scaleY, chk)
        h == WithRecompute(Quiet(op), canTransform, g, eng)
    IN  /\ straightChecked' = chk
        /\ baseEnabled' = ~chk
        /\ eng' = g.eng
        /\ img' = IF g.raised = "" THEN u.img ELSE img
        /\ last' = Hist(IF g.raised = ""
                        THEN WithFrame(h, g.eng, corners, scaleX, scaleY, u)
                        ELSE h)
        /\ UNCHANGED << cam, config, corners, currentDefCorner, baseChecked, straightEnabled,
                        scaleX, scaleY, beamPos, mouseClickPos, nClicks >>

\* StraightRectButton.clickedSlot, lines 364-367, after the check state became chk
StraightClickedSlot(chk, op, f) ==
    StraightClickedWith(chk, op,
                        GetTransform(eng, corners, scaleX, scaleY, beamPos, img, f))

\* a click on the rectified-view toggle
StraightClicked(f) ==
    /\ Bounded
    /\ straightEnabled
    /\ StraightClickedSlot(~straightChecked, "straightClicked", f)

\* the inherited eventFilter, lines 313-319: Escape on the focused toggle
StraightEscape(f) ==
    /\ Bounded
    /\ straightEnabled
    /\ StraightClickedSlot(FALSE, "straightEscape", f)

\* ScaleEdit.eventFilter, lines 444-445, with the scales sx, sy as stored and
\* what buttonStraightRect.update() returned (su)
ScaleKeyUpdated(sx, sy, f, su) ==
    /\ ~su.recomputed => f = NoFault
    /\ scaleX' = sx
    /\ scaleY' = sy
    /\ config' = [config EXCEPT !.scalex = sx, !.scaley = sy]
    /\ eng' = su.eng
    /\ straightEnabled' = su.enabled
    /\ last' = Hist(AfterUpdate(Quiet("scaleKey"), su, eng, corners, sx, sy,
                                UpdateFrame(su.eng, corners, sx, sy, straightChecked),
                                FALSE))
    /\ UNCHANGED << cam, corners, currentDefCorner, baseChecked, baseEnabled,
                    straightChecked, beamPos, mouseClickPos, img, nClicks >>

ScaleKeyStored(sx, sy, f) ==
    ScaleKeyUpdated(sx, sy, f,
                    StraightUpdate(eng, corners, sx, sy, beamPos, img, straightEnabled, f))

\* ScaleEdit.eventFilter, lines 432-446: Enter/Return stores the spin box value
\* v in the buddy button, Escape stores nothing; both call
\* buttonStraightRect.update(). Escape does the same in either edit and for
\* every spin box value: it is followed once, as name "x" and v = 0.
ScaleKey(name, key, v, f) ==
    /\ Bounded
    /\ key = "Escape" => name = "x" /\ v = 0
    /\ ScaleKeyStored(IF key = "Enter" /\ name = "x" THEN v ELSE scaleX,
                      IF key = "Enter" /\ name = "y" THEN v ELSE scaleY, f)

\* the history of a point query or a move-to-beam request (kind) answered from eng
UseTransform(h, kind) ==
    [h EXCEPT !.uses = @ \cup {kind},
              !.ctAtUse = @ /\ canTransform,
              !.readyAtUse = @ /\ Ready(eng),
              !.staleAtUse = @ \/ Stale(eng, corners, scaleX, scaleY),
              !.raised = IF Ready(eng) THEN "" ELSE "AttributeError"]

\* set_message, lines 118-126: the plate coordinates (x0, y0) shown for the
\* cursor at pos, in the perspective view and in the rectified view (chk)
PlateMessage(pos, chk, e) ==
    << RatDiv(RatSub((IF chk THEN <<pos[1], 1>> ELSE TransformPoint(pos, e)[1]),
                     e.beamPosRectified[1]), e.zoom),
       RatDiv(RatSub((IF chk THEN <<pos[2], 1>> ELSE TransformPoint(pos, e)[2]),
                     e.beamPosRectified[2]), e.zoom) >>

\* MyToolBar.set_message, lines 105-135, for the cursor at image position p:
\* plate coordinates are computed only under canTransform(); exceptions are
\* swallowed at line 130
SetMessage(p) ==
    /\ Bounded
    /\ last' = Hist(IF canTransform
                    THEN [UseTransform(Quiet("setMessage"), "query") EXCEPT !.raised = ""]
                    ELSE Quiet("setMessage"))
    /\ UNCHANGED << cam, config, corners, currentDefCorner, baseChecked, baseEnabled,
                    straightChecked, straightEnabled, scaleX, scaleY, beamPos,
                    mouseClickPos, img, eng, nClicks >>

\* moveToBeam, lines 233-242, once the point (xP, yP) compared with the beam mark
\* is known: x0, y0 = (xP-xC)/zoom, (yP-yC)/zoom; the collaborator is handed
\* (-x0, y0) (printed at line 242, added to the motor positions at lines 247-252)
MoveFrom(pP, pC, zoom) ==
    << RatNeg(RatDiv(RatSub(pP[1], pC[1]), zoom)), RatDiv(RatSub(pP[2], pC[2]), zoom) >>

\* moveToBeam, lines 232-242, for mouseClickPos = pos: in the perspective view
\* the click goes through transformPoint, in the rectified view (chk) it is
\* taken as it is
MoveToBeam(pos, chk, e) ==
    MoveFrom(IF chk THEN << <<pos[1], 1>>, <<pos[2], 1>> >> ELSE TransformPoint(pos, e),
             e.beamPosRectified, e.zoom)

MenuChoices == {"move", "defineBeam", "defineBeamNo", "other"}

\* viewMenu that opens the menu without asking for a click position
ViewMenuAnyPos(choice, f, bp, su, h0) ==
    LET u == UpdateFrame(su.eng, corners, scaleX, scaleY, straightChecked)
    IN  /\ ~su.recomputed => f = NoFault
        /\ choice = "move" => canTransform
        /\ choice = "defineBeam" => ~straightChecked /\ mouseClickPos \in BeamPts
        /\ choice = "defineBeamNo" => ~straightChecked /\ (beamPos[1] > 0 \/ beamPos[2] > 0)
        /\ beamPos' = bp
        /\ config' = [config EXCEPT !.pos = bp]
        /\ eng' = su.eng
        /\ straightEnabled' = su.enabled
        /\ img' = IF su.raised = "" /\ h0.raised = "" THEN u.img ELSE img
        /\ last' = Hist(IF h0.raised = ""
                        THEN AfterUpdate(h0, su, eng, corners, scaleX, scaleY, u, TRUE)
                        ELSE h0)
        /\ UNCHANGED << cam, corners, currentDefCorner, baseChecked, baseEnabled,
                        straightChecked, scaleX, scaleY, mouseClickPos, nClicks >>

\* viewMenu, lines 203-210, with the beam position bp as stored and what
\* buttonStraightRect.update() returned (su), the history h0 of the entry taken
ViewMenuUpdated(choice, f, bp, su, h0) ==
    LET moveOn == canTransform
        defOn == ~straightChecked
        asks == beamPos[1] > 0 \/ beamPos[2] > 0
        u == UpdateFrame(su.eng, corners, scaleX, scaleY, straightChecked)
    IN  /\ ~su.recomputed => f = NoFault
        /\ IF mouseClickPos = None
           THEN /\ choice = "other"
                /\ last' = Hist(Quiet("viewMenuNoPos"))
                /\ UNCHANGED << config, beamPos, eng, straightEnabled, img >>
           ELSE /\ choice = "move" => moveOn
                /\ choice = "defineBeam" => defOn /\ mouseClickPos \in BeamPts
                /\ choice = "defineBeamNo" => defOn /\ asks
                /\ beamPos' = bp
                /\ config' = [config EXCEPT !.pos = bp]
                /\ eng' = su.eng
                /\ straightEnabled' = su.enabled
                /\ img' = IF su.raised = "" /\ h0.raised = "" THEN u.img ELSE img
                /\ last' = Hist(IF h0.raised = ""
                                THEN AfterUpdate(h0, su, eng, corners, scaleX, scaleY, u,
                                                 TRUE)
                                ELSE h0)
        /\ UNCHANGED << cam, corners, currentDefCorner, baseChecked, baseEnabled,
                        straightChecked, scaleX, scaleY, mouseClickPos, nClicks >>

\* setBeamPosition without its call of buttonStraightRect.update()
ViewMenuDefinedOnly(choice, f, define, bp) ==
    ViewMenuUpdated(choice, f, bp, NoUpdate,
                    IF choice = "move" THEN UseTransform(Quiet("viewMenu"), "move")
                    ELSE Quiet("viewMenu"))

\* viewMenu with the entry run: setBeamPosition (lines 212-224) stores the
\* position bp and calls buttonStraightRect.update(); moveToBeam reads the transform
ViewMenuDefined(choice, f, define, bp) ==
    ViewMenuUpdated(choice, f, bp,
                    IF define
                    THEN StraightUpdate(eng, corners, scaleX, scaleY, bp, img,
                                        straightEnabled, f)
                    ELSE NoUpdate,
                    IF choice = "move" THEN UseTransform(Quiet("viewMenu"), "move")
                    ELSE Quiet("viewMenu"))

\* MyMplCanvas.viewMenu, lines 203-210, with the menu entry the operator picks:
\*   "move"          moveToBeam, lines 232-243
\*   "defineBeam"    setBeamPosition, lines 212-224 (confirmed when asked)
\*   "defineBeamNo"  setBeamPosition answered No in the confirmation box
\*   "other"         showBeam, showRect or no entry
ViewMenu(choice, f) ==
    /\ Bounded
    /\ ViewMenuDefined(choice, f, choice = "defineBeam" /\ mouseClickPos # None,
                       IF choice = "defineBeam" /\ mouseClickPos # None
                       THEN mouseClickPos ELSE beamPos)

(* ----------------------------- USBCamera ------------------------------ *)
\* A numpy integer is kept as <<value, bits>>: the value and the width of its
\* unsigned dtype. Widths of 32 bits hold every value met here (below 2^24).
\* The image attribute is None or the one-pixel array <<v>>.
\* The server before init_device and a client that has not read yet:
\*   state     the Tango device state
\*   camera    self.camera: "none" (no such attribute), "opened" or "released"
\*             (a VideoCapture that did not open), as init_device left it
\*   image     self._image
\*   previous  self.previous_frame (None: the empty array of line 58)
\*   unpacked  the client's unpacked pixel
\* and, as history, the call made last (op), the way it took (path), what
\* camera.read() gave it (got), the frame published last (frame) and what
\* is_image_allowed returned (allowed).
CamNone ==
    [ state |-> "UNKNOWN", camera |-> "none", image |-> None, previous |-> None,
      unpacked |-> None, op |-> "none", path |-> "", got |-> None, frame |-> None,
      allowed |-> TRUE ]

Max2(a, b) == IF a >= b THEN a ELSE b

\* np.min_scalar_type of a non-negative Python int: uint8, uint16 or uint32
MinScalarBits(k) == IF k < 256 THEN 8 ELSE IF k < 65536 THEN 16 ELSE 32

\* the value x stored in an unsigned dtype of the given width
WrapTo(x, bits) == IF bits < 31 THEN <<x % (2 ^ bits), bits>> ELSE <<x, bits>>

\* array * Python int: the result dtype is the wider of the array's dtype and
\* the smallest dtype holding the scalar (value-based casting)
MulScalar(a, k) == WrapTo(a[1] * k, Max2(a[2], MinScalarBits(k)))

\* array + array: the wider dtype
AddArr(a, b) == WrapTo(a[1] + b[1], Max2(a[2], b[2]))

\* one pixel of a frame of cv2.VideoCapture.read: three uint8 channels
UInt8(c) == <<c, 8>>

\* pack_frame with every product and sum kept in uint8
PackFrameNarrow(fr) ==
    WrapTo(WrapTo(fr[1] * 65536, 8)[1] + WrapTo(fr[2] * 256, 8)[1] + fr[3], 8)

\* pack_frame, lines 102-103, for one pixel fr = <<c0, c1, c2>>
PackFrame(fr) ==
    AddArr(AddArr(MulScalar(UInt8(fr[1]), 65536), MulScalar(UInt8(fr[2]), 256)),
           UInt8(fr[3]))

\* the assignment into self._image, lines 142-145: a cast to uint32
StoreImage(v) == << WrapTo(v[1], 32)[1] >>

\* (frame >> n) & 0xff stored in a uint8 array, lines 10-12 and 546-548
ShiftAndMask(x, n) == (x \div (2 ^ n)) % 256

\* the client's unpacking, USBCamera.py lines 9-12 and OrthoView.getFrame lines
\* 545-548: the tuple lists unpacked[..., 0], unpacked[..., 1], unpacked[..., 2]
Unpack(image) ==
    << ShiftAndMask(image, 0), ShiftAndMask(image, 8), ShiftAndMask(image, 16) >>

\* init_device that sets ON for any device path found, opened or not
InitDeviceUnchecked(c, present, opens) ==
    [c EXCEPT !.image = None, !.previous = None,
              !.state = IF present THEN "ON" ELSE "FAULT",
              !.camera = IF present THEN (IF opens THEN "opened" ELSE "released")
                         ELSE c.camera]

\* init_device, lines 50-88. present: glob finds a device path; opens: one of
\* the VideoCapture objects reports isOpened(). The state is INIT from line 51
\* until line 66, 83 or 88.
InitDevice(c, present, opens) ==
    [c EXCEPT !.image = None, !.previous = None,
              !.state = IF present /\ opens THEN "ON" ELSE "FAULT",
              !.camera = IF present THEN (IF opens THEN "opened" ELSE "released")
                         ELSE c.camera]

\* delete_device, lines 90-96: a missing self.camera is swallowed by the except
DeleteDevice(c) == [c EXCEPT !.camera = "none"]

\* delete_device(); init_device()
Recovered(c, present, opens) == InitDevice(DeleteDevice(c), present, opens)

\* was_fault, lines 105-110: the device after the call (it returns True exactly
\* when the state was FAULT)
WasFault(c, present, opens) ==
    IF c.state = "FAULT" THEN Recovered(c, present, opens) ELSE c

\* set_state(FAULT); delete_device(); init_device(): lines 120-122 and 136-138
Faulted(c, present, opens) == Recovered([c EXCEPT !.state = "FAULT"], present, opens)

\* what camera.read() does: it raises, returns ret = False, or returns a frame
ReadResults == {"raised", "failed", "frame"}

\* lines 141-150: the frame px is packed into self._image
Published(c, px) ==
    [c EXCEPT !.image = StoreImage(PackFrame(px)), !.state = "ON", !.previous = px,
              !.frame = px, !.path = "published", !.got = px]

\* read_attr_hardware, lines 113-150, on the device c. stillOpen: the camera
\* opened by init_device still reports isOpened(); res, px: what camera.read()
\* does. An exception of read() is printed (lines 127-129) and line 132 then
\* reads the unassigned local ret.
AfterRead(c, present, opens, stillOpen, res, px) ==
    IF c.state = "FAULT"
    THEN [Recovered(c, present, opens) EXCEPT !.path = "was_fault", !.got = None]
    ELSE IF c.camera = "none"
    THEN [c EXCEPT !.path = "AttributeError", !.got = None]
    ELSE IF ~(c.camera = "opened" /\ stillOpen)
    THEN [Faulted(c, present, opens) EXCEPT !.path = "not opened", !.got = None]
    ELSE IF res = "raised"
    THEN [c EXCEPT !.path = "UnboundLocalError", !.got = None]
    ELSE IF res = "failed"
    THEN [Faulted(c, present, opens) EXCEPT !.path = "rejected", !.got = None]
    ELSE IF px = c.previous
    THEN [Faulted(c, present, opens) EXCEPT !.path = "rejected", !.got = px]
    ELSE Published(c, px)

ReadAttrHardware(present, opens, stillOpen, res, px) ==
    /\ cam.state # "UNKNOWN"
    /\ cam' = [AfterRead(cam, present, opens, stillOpen, res, px)
                 EXCEPT !.op = "read_attr_hardware"]
    /\ UNCHANGED guiVars

\* read_image, lines 153-155
ReadImage(present, opens) ==
    /\ cam.state # "UNKNOWN"
    /\ cam' = [WasFault(cam, present, opens)
                 EXCEPT !.op = "read_image", !.path = "", !.got = None]
    /\ UNCHANGED guiVars

\* is_image_allowed, lines 157-159, on the device c that was_fault leaves as
\* `after`
Allowed(c, after) ==
    [after EXCEPT !.op = "is_image_allowed", !.path = "", !.got = None,
                  !.allowed = after.state # "FAULT"]

IsImageAllowed(present, opens) ==
    /\ cam.state # "UNKNOWN"
    /\ cam' = Allowed(cam, WasFault(cam, present, opens))
    /\ UNCHANGED guiVars

\* was_fault called on its own
WasFaultCall(present, opens) ==
    /\ cam.state # "UNKNOWN"
    /\ cam' = [WasFault(cam, present, opens)
                 EXCEPT !.op = "was_fault", !.path = "", !.got = None]
    /\ UNCHANGED guiVars

\* the client reads the image attribute and unpacks it, lines 540-549
ClientUnpack ==
    /\ cam.image # None
    /\ cam' = [cam EXCEPT !.unpacked = Unpack(cam.image[1])]
    /\ UNCHANGED guiVars

(* --------------------------- specification ---------------------------- *)
\* OrthoView.__init__, lines 450-516, with the configuration file as written by
\* an earlier run (or the defaults of line 92): updateFrame(), then
\* buttonStraightRect.update()
Configs ==
    [ corners : { <<None, None, None, None>>,
                  Canonicalize(<<PtList[1], PtList[2], PtList[3], PtList[4]>>) },
      scalex : ScaleVals, scaley : ScaleVals,
      pos : {<<0, 0>>} \cup BeamPts ]

Started(cfg, su) ==
    /\ corners = cfg.corners
    /\ currentDefCorner = -1
    /\ baseChecked = FALSE
    /\ baseEnabled = TRUE
    /\ straightChecked = FALSE
    /\ straightEnabled = su.enabled
    /\ scaleX = cfg.scalex
    /\ scaleY = cfg.scaley
    /\ beamPos = cfg.pos
    /\ mouseClickPos = None
    /\ img = Frame
    /\ eng = su.eng
    /\ last = Quiet("init")
    /\ nClicks = 0
    /\ config = cfg

\* the window alone
GuiStart(cfg) ==
    Started(cfg, StraightUpdate(EngNone, cfg.corners, cfg.scalex, cfg.scaley, cfg.pos,
                                Frame, FALSE, NoFault))

\* the window run with isTest = True: no camera server is read
Start(cfg) == GuiStart(cfg) /\ cam = CamNone

Init == \E cfg \in Configs : Start(cfg)

\* the handlers that reach getTransform without a corner click
Keys(f) ==
    \/ StraightClicked(f)
    \/ StraightEscape(f)
    \/ \E name \in {"x", "y"}, key \in {"Enter", "Escape"}, v \in ScaleVals :
          ScaleKey(name, key, v, f)
    \/ \E choice \in MenuChoices : ViewMenu(choice, f)

Next ==
    \/ BaseClicked
    \/ BaseEscape
    \/ OnPressOutside
    \/ \E p \in BeamPts : SetMessage(p)
    \/ \E p \in (IF baseChecked THEN Aim(currentDefCorner) ELSE BeamPts) :
          OnPress(p, NoFault)
    \/ Keys(NoFault)

Spec == Init /\ [][Next]_vars

\* the corner definition alone, over more click positions: scales left at 0
InitCorners ==
    \E cfg \in Configs : cfg.scalex = 0 /\ cfg.scaley = 0 /\ cfg.pos = <<0, 0>> /\ Start(cfg)

NextCorners ==
    \/ BaseClicked
    \/ BaseEscape
    \/ OnPressOutside
    \/ \E p \in WidePts : OnPress(p, NoFault)

SpecCorners == InitCorners /\ [][NextCorners]_vars

\* the program with cv2 calls that may raise inside getTransform, the corners
\* left as configured
NextFault ==
    \/ \E p \in BeamPts : OnPress(p, NoFault)
    \/ \E f \in FaultStages \cup {NoFault} : Keys(f)

SpecFault == Init /\ [][NextFault]_vars

\* the scale edits and the rectified-view toggle alone, over more scale values
NextSize ==
    \/ \E name \in {"x", "y"}, v \in WideScaleVals : ScaleKey(name, "Enter", v, NoFault)
    \/ StraightClicked(NoFault)

SpecSize == Init /\ [][NextSize]_vars

\* the camera server and its client alone, the window left as started from the
\* defaults of line 92
DefaultConfig ==
    [ corners |-> <<None, None, None, None>>, scalex |-> 0, scaley |-> 0,
      pos |-> <<0, 0>> ]

\* a camera that is found, opens and delivers frames of any pixel
InitPack == GuiStart(DefaultConfig) /\ cam = InitDevice(CamNone, TRUE, TRUE)

NextPack ==
    \/ \E c0, c1, c2 \in ByteVals :
          ReadAttrHardware(TRUE, TRUE, TRUE, "frame", <<c0, c1, c2>>)
    \/ ClientUnpack

SpecPack == InitPack /\ [][NextPack]_vars

\* the camera server alone, with a camera that may be missing, fail to open,
\* close, fail to read or repeat a frame
InitCam ==
    \E present, opens \in BOOLEAN :
        GuiStart(DefaultConfig) /\ cam = InitDevice(CamNone, present, opens)

NextCam ==
    \/ \E present, opens, stillOpen \in BOOLEAN, res \in ReadResults, px \in CamPixels :
          ReadAttrHardware(present, opens, stillOpen, res, px)
    \/ \E present, opens \in BOOLEAN : ReadImage(present, opens)
    \/ \E present, opens \in BOOLEAN : IsImageAllowed(present, opens)
    \/ \E present, opens \in BOOLEAN : WasFaultCall(present, opens)

SpecCam == InitCam /\ [][NextCam]_vars

(* ----------------------------- properties ----------------------------- *)
\* the ways to re-order four slots
Perms4 == {f \in [1..4 -> 1..4] : \A i, j \in 1..4 : f[i] = f[j] => i = j}
Permuted(q, f) == <<q[f[1]], q[f[2]], q[f[3]], q[f[4]]>>
IsPermutation(a, b) == \E f \in Perms4 : a = Permuted(b, f)

\* c reads [top-left, top-right, bottom-right, bottom-left]
CanonicalOrder(c) ==
    /\ \A i \in {1, 2}, j \in {3, 4} : c[i][2] <= c[j][2]
    /\ c[1][1] <= c[2][1]
    /\ c[4][1] <= c[3][1]

Distinct4(q) == \A i, j \in 1..4 : q[i] = q[j] => i = j

\* p lies strictly inside the triangle a, b, c
InTriangle(p, a, b, c) ==
    \/ Cross(a, b, p) > 0 /\ Cross(b, c, p) > 0 /\ Cross(c, a, p) > 0
    \/ Cross(a, b, p) < 0 /\ Cross(b, c, p) < 0 /\ Cross(c, a, p) < 0

\* the four points are the vertices of a convex quadrilateral
ConvexPosition(q) ==
    /\ ~InTriangle(q[1], q[2], q[3], q[4])
    /\ ~InTriangle(q[2], q[1], q[3], q[4])
    /\ ~InTriangle(q[3], q[1], q[2], q[4])
    /\ ~InTriangle(q[4], q[1], q[2], q[3])

\* the attributes getTransform assigns agree in a and b
SameEngine(a, b) ==
    /\ a.zoom = b.zoom
    /\ a.perspectiveTransform1 = b.perspectiveTransform1
    /\ a.boundingRect = b.boundingRect
    /\ a.beamPosRectified = b.beamPosRectified
    /\ a.targetRect = b.targetRect
    /\ a.perspectiveTransform2 = b.perspectiveTransform2

\* C1: the setCorner call that supplies the fourth point of a pass stores a
\* permutation of the four points then held (the three slots before the cursor
\* and the point clicked), in the order top-left, top-right, bottom-right,
\* bottom-left: the top pair has the smaller y, the left point of a pair the
\* smaller x.
C1_FourthPointCanonical ==
    [][ (baseChecked /\ currentDefCorner = 3 /\ nClicks' = nClicks + 1)
        => /\ IsPermutation(corners', [corners EXCEPT ![4] = mouseClickPos'])
           /\ CanonicalOrder(corners') ]_vars

\* a pass was completed and the sort moved the point clicked last out of slot 4
C1_Witness == last.op = "setCornerLast" /\ corners[4] # mouseClickPos

\* C2: four distinct points, no three collinear, in convex position, end as the
\* same corner list in whichever of the 24 orders they are clicked.
C2_OrderIndependent ==
    (last.op = "setCornerLast" /\ Distinct4(corners) /\ GeneralPosition(corners)
        /\ ConvexPosition(corners))
    => \A f \in Perms4 : Canonicalize(Permuted(corners, f)) = corners

\* C3: canTransform() holds exactly when no slot is empty and both scales are
\* positive, whatever the mode, the cursor, the beam point or the engine hold.
C3_CanTransformIff ==
    canTransform <=> ((\A i \in 1..4 : corners[i] # None) /\ scaleX > 0 /\ scaleY > 0)

\* canTransform() is false for a zero Y scale alone, in rectified mode and with a
\* transform computed
C3_Witness ==
    /\ ~canTransform
    /\ NoneNotIn(corners) /\ scaleX > 0 /\ scaleY = 0
    /\ straightChecked
    /\ eng.perspectiveTransform1 # Unset

\* C4: in every reachable state the rectified-view toggle is on only if
\* canTransform() holds.
C4_RectifiedNeedsCanTransform == straightChecked => canTransform

\* C5: in every reachable state the rectified-view toggle is enabled exactly
\* when canTransform() holds.
C5_ToggleEnabledIffCanTransform == straightEnabled <=> canTransform

\* the toggle went from enabled to disabled: a transform was computed, the
\* corners are complete, a scale is now 0
C5_Witness ==
    /\ ~straightEnabled
    /\ NoneNotIn(corners)
    /\ eng.perspectiveTransform1 # Unset

\* C6: no point query, move-to-beam request or rectified render reads a
\* transform derived from corners or scales other than the current ones.
C6_NoStaleUse == last.uses # {} => ~last.staleAtUse

\* C7: after every recompute zoom = (width of the camera frame) / scaleX.
C7_ZoomFromFrameWidth ==
    (last.recomputed /\ last.raised = "") => eng.zoom = Rat(FrameW, scaleX)

\* C8: a recompute on corners of which three are collinear or coincident
\* reports it and stores no transform for them.
C8_DegenerateRejected ==
    (last.recomputed /\ NoneNotIn(corners) /\ ~GeneralPosition(corners))
    => /\ last.raised # ""
       /\ ~(eng.perspectiveTransform1 # Unset /\ eng.perspectiveTransform1[1] = corners)

\* C9: getTransform, a point query, a move-to-beam request and a rectified
\* render run only while canTransform() holds, and the three readers only
\* when every attribute they read has been assigned; none of them raises.
C9_GuardedUse ==
    /\ last.recomputed => last.ctAtRecompute
    /\ last.uses # {} => (last.ctAtUse /\ last.readyAtUse)
    /\ last.raised = ""

\* the toggle was switched on: getTransform ran, then the rectified render
C9_Witness == last.recomputed /\ "render" \in last.uses /\ straightChecked

\* C10: a getTransform call that a cv2 call ends with an exception leaves the
\* attributes of a completed earlier call as they were.
C10_FailureKeepsEngine ==
    (last.raised = "cv2.error" /\ Ready(last.engBefore)
        /\ last.engBefore.perspectiveTransform2 # Unset)
    => SameEngine(eng, last.engBefore)

\* plate millimetres of the camera pixel q: the homography taking the corners cs
\* to the rectangle of sx by sy millimetres
PlateOf(q, cs, sx, sy) ==
    PerspectiveTransform(q, GetPerspectiveTransform(cs, POutOf(sx, sy)))

\* plate millimetres of the pixel c of a rectified canvas on which the reference
\* rectangle of sx by sy millimetres is drawn at tR
PlateOfCanvas(c, tR, sx, sy) ==
    << Rat((c[1] - tR[1][1]) * sx, tR[2][1] - tR[1][1]),
       Rat((c[2] - tR[1][2]) * sy, tR[4][2] - tR[1][2]) >>

\* plate millimetres of the point the operator sees at pixel c of the image im
PlateSeenAt(c, im, cs, sx, sy) ==
    IF im[3] = Unset THEN PlateOf(c, cs, sx, sy)
    ELSE PlateOfCanvas(c, im[3][2], sx, sy)

\* (-(cx - bx), +(cy - by)) for the clicked point pc and the beam pb, in plate mm
TowardsBeam(pc, pb) == << RatNeg(RatSub(pc[1], pb[1])), RatSub(pc[2], pb[2]) >>

\* C11: a move-to-beam request that reads a transform of the current corners
\* (in general position) and scales hands over (-(cx - bx), +(cy - by)), where
\* (cx, cy) and (bx, by) are the plate millimetres of the point clicked in the
\* image on display and of the beam point; the perspective and the rectified
\* view give the same vector for the same point of the plate.
C11_DisplacementToBeam ==
    [][ ("move" \in last'.uses /\ last'.raised = "" /\ GeneralPosition(corners)
            /\ ~Stale(eng, corners, scaleX, scaleY))
        => MoveToBeam(mouseClickPos, straightChecked, eng)
           = TowardsBeam(PlateSeenAt(mouseClickPos, img, corners, scaleX, scaleY),
                         PlateOf(beamPos, corners, scaleX, scaleY)) ]_vars

\* C12: whenever canTransform() holds in the perspective view, beamPosRectified
\* is the current beam point put through the current perspectiveTransform1 and
\* shifted by the current boundingRect's origin, so the plate coordinates shown
\* for the cursor on the beam pixel are (0, 0); this holds also right after the
\* beam point, a corner or a scale was changed.
C12_BeamAtOrigin ==
    (canTransform /\ ~straightChecked)
    => /\ Ready(eng)
       /\ eng.beamPosRectified = TransformPoint(beamPos, eng)
       /\ PlateMessage(beamPos, FALSE, eng) = << <<0, 1>>, <<0, 1>> >>

\* the beam point was just moved to another pixel in the perspective view and
\* the transform recomputed for it
C12_Witness ==
    /\ canTransform /\ ~straightChecked
    /\ last.op = "viewMenu" /\ last.recomputed
    /\ beamPos = mouseClickPos
    /\ eng.beamPosRectified # EngNone.beamPosRectified

\* C13: a step that ends with no click position (a click outside the axes, or
\* any handler run while the position is None) sets no corner, defines no beam
\* position and runs no move-to-beam request; both menu entries stay out of
\* reach until a click inside the axes.
C13_NoPositionNoAction ==
    [][ mouseClickPos' = None
        => /\ corners' = corners
           /\ nClicks' = nClicks
           /\ beamPos' = beamPos
           /\ "move" \notin last'.uses ]_vars

\* after corner clicks inside the image the operator clicked outside the axes,
\* in a state where both menu entries would be enabled
C13_Witness ==
    /\ mouseClickPos = None
    /\ nClicks > 0
    /\ canTransform /\ ~straightChecked

\* C14: in every reachable state with all four slots filled the corner list
\* reads [top-left, top-right, bottom-right, bottom-left].
C14_CompleteIsCanonical == NoneNotIn(corners) => CanonicalOrder(corners)

\* the integer point p as a pair of rationals
AsRat(p) == << <<p[1], 1>>, <<p[2], 1>> >>

\* t takes the four points it was solved for to (0,0), (w,0), (w,h), (0,h)
CornersToTarget(t, w, h) ==
    /\ PerspectiveTransform(t[1][1], t) = AsRat(<<0, 0>>)
    /\ PerspectiveTransform(t[1][2], t) = AsRat(<<w, 0>>)
    /\ PerspectiveTransform(t[1][3], t) = AsRat(<<w, h>>)
    /\ PerspectiveTransform(t[1][4], t) = AsRat(<<0, h>>)

\* C15: after every recompute perspectiveTransform1 takes corner 0 to (0,0),
\* corner 1 to (targetWidth,0), corner 2 to (targetWidth,targetHeight) and
\* corner 3 to (0,targetHeight).
C15_CornersToTarget ==
    (last.recomputed /\ last.raised = "")
    => /\ eng.perspectiveTransform1[1] = corners
       /\ CornersToTarget(eng.perspectiveTransform1,
                          TargetSize(scaleX, eng.zoom), TargetSize(scaleY, eng.zoom))

\* C16: for every pixel (c0, c1, c2) of bytes the server publishes
\* c0*65536 + c1*256 + c2, a value below 2^24 that fits the 32-bit attribute, and
\* the client's unpacking of it yields c2 at index 0, c1 at index 1 and c0 at
\* index 2.
C16_PackUnpack ==
    /\ [](cam.image # None
          => /\ cam.image[1] = cam.frame[1] * 65536 + cam.frame[2] * 256 + cam.frame[3]
             /\ cam.image[1] < 2 ^ 24)
    /\ [][cam'.unpacked # cam.unpacked
          => cam'.unpacked = <<cam.frame[3], cam.frame[2], cam.frame[1]>>]_vars

\* a pixel with three different channels, the first above 127, was packed and
\* unpacked
C16_Witness ==
    /\ cam.frame = <<255, 1, 128>>
    /\ cam.unpacked = <<128, 1, 255>>

\* c is the 0-based index of the first empty slot of cs, or 0 when none is empty
FirstEmptyOrZero(cs, c) ==
    IF \A i \in 1..4 : cs[i] # None THEN c = 0
    ELSE /\ c \in 0..3
         /\ cs[c + 1] = None
         /\ \A j \in 1..c : cs[j] # None

\* C17: the click that checks the perspective-rectangle button puts the cursor
\* on the first empty slot, or on slot 0 when all four are filled, and changes
\* no corner.
C17_BeginAtFirstEmpty ==
    [][ (~baseChecked /\ baseChecked')
        => /\ corners' = corners
           /\ FirstEmptyOrZero(corners, currentDefCorner') ]_vars

\* a definition was begun on a complete list and no point has been set yet
C17_Witness ==
    /\ baseChecked /\ nClicks = 0
    /\ NoneNotIn(corners)
    /\ currentDefCorner = 0

\* the slot the next point goes to; -1 while the list is not being edited. The
\* program reads currentDefCorner only while the button is checked (lines 199,
\* 332, 610).
NextSlot == IF baseChecked THEN currentDefCorner ELSE -1

\* C18: the setCorner call that takes the fourth point ends the editing (no next
\* slot is left), and from then on no step other than a new click on the
\* perspective-rectangle button changes the corner list: every point event
\* leaves it as it is until a definition is begun again.
C18_PassEndsEditing ==
    [][ /\ (baseChecked /\ currentDefCorner = 3 /\ nClicks' = nClicks + 1)
            => NextSlot' = -1
        /\ (NextSlot = -1 /\ NextSlot' = -1) => corners' = corners ]_vars

\* a pass was completed (slot 3 holds another point than configured) and a later
\* click, at a point that is none of the corners, left the list alone
C18_Witness ==
    /\ NextSlot = -1
    /\ NoneNotIn(corners) /\ corners[4] # PtList[4]
    /\ last.op = "idle"
    /\ mouseClickPos # None
    /\ \A i \in 1..4 : corners[i] # mouseClickPos

\* C19: on a complete list, the click that checks (or unchecks) the
\* perspective-rectangle button changes no slot, and each of the first three
\* setCorner calls of the new pass writes the clicked point into the slot under
\* the cursor and leaves the other three slots as they were; the list stays
\* complete throughout.
C19_RedefinitionKeepsOthers ==
    [][ NoneNotIn(corners)
        => /\ (baseChecked' # baseChecked /\ nClicks' = nClicks) => corners' = corners
           /\ (baseChecked /\ currentDefCorner \in 0..2 /\ nClicks' = nClicks + 1)
                 => /\ corners'[currentDefCorner + 1] = mouseClickPos'
                    /\ \A j \in 1..4 : j # currentDefCorner + 1 => corners'[j] = corners[j]
                    /\ NoneNotIn(corners')
                    /\ baseChecked' ]_vars

\* three points of a new pass were set on a complete list, the first of them
\* another point than the slot held; the fourth slot still holds the old corner
C19_Witness ==
    /\ baseChecked /\ currentDefCorner = 3 /\ nClicks = 3
    /\ NoneNotIn(corners)
    /\ corners[1] # PtList[1]
    /\ corners[4] = PtList[4]

\* the integer n is a nearest integer of the rational r (either neighbour on a tie)
NearestInt(n, r) == 2 * Abs(n * r[2] - r[1]) <= r[2]

\* C20: after every recompute, with zoom = imageWidth / scaleX, the target
\* rectangle is round(scaleX * zoom) wide and round(scaleY * zoom) high
\* (nearest integers), and its width is the image width.
C20_TargetSizeRounded ==
    (last.recomputed /\ last.raised = "")
    => /\ NearestInt(eng.perspectiveTransform1[2][3][1],
                     Rat(scaleX * eng.zoom[1], eng.zoom[2]))
       /\ NearestInt(eng.perspectiveTransform1[2][3][2],
                     Rat(scaleY * eng.zoom[1], eng.zoom[2]))
       /\ Rat(eng.perspectiveTransform1[2][3][1], scaleX) = eng.zoom

\* the rectangle bR bounds the images under t of the corners of an image w wide
\* and of some height
BoundsImageUnder(bR, t, w) ==
    \E h \in 1..MaxDim : bR = BoundingRectOf(OutCorners(InCorners(w, h), t))

\* C21: after every recompute perspectiveTransform2 is solved from the same
\* four image corners as perspectiveTransform1 and from the target corners
\* (0,0), (targetWidth,0), (targetWidth,targetHeight), (0,targetHeight) each
\* moved by (-boundingRect.x, -boundingRect.y), boundingRect being the box of
\* that recompute: the box of the image corners under that perspectiveTransform1.
C21_DisplayFromSameRecompute ==
    (last.recomputed /\ last.raised = "")
    => /\ eng.perspectiveTransform1[1] = corners
       /\ eng.perspectiveTransform2[1] = eng.perspectiveTransform1[1]
       /\ eng.perspectiveTransform1[2]
            = POutOf(TargetSize(scaleX, eng.zoom), TargetSize(scaleY, eng.zoom))
       /\ \A i \in 1..4 :
             eng.perspectiveTransform2[2][i]
             = << eng.perspectiveTransform1[2][i][1] - eng.boundingRect[1],
                  eng.perspectiveTransform1[2][i][2] - eng.boundingRect[2] >>
       /\ eng.perspectiveTransform2[3]
            = HMatrix(eng.perspectiveTransform2[1], eng.perspectiveTransform2[2])
       /\ BoundsImageUnder(eng.boundingRect, eng.perspectiveTransform1,
                           IntOf(Rat(scaleX * eng.zoom[1], eng.zoom[2])))

\* a recompute for corners in general position whose bounding rectangle does
\* not start at the origin, shown in the rectified view
C21_Witness ==
    /\ last.recomputed /\ last.raised = ""
    /\ GeneralPosition(corners)
    /\ eng.boundingRect[1] # 0 /\ eng.boundingRect[2] # 0
    /\ straightChecked /\ img[3] = eng.perspectiveTransform2

\* the empty slots of cs are its last ones
EmptySuffix(cs) == \A i, j \in 1..4 : (i < j /\ cs[i] = None) => cs[j] = None

\* C22: from a list that is empty or complete, whatever clicks on the button,
\* Escape keys and point clicks follow, the empty slots are the last ones, the
\* cursor is in 0..3 while the button is checked, and while the list is
\* incomplete and the button checked the cursor is the index of the first
\* empty slot.
C22_CursorAtFirstEmpty ==
    /\ EmptySuffix(corners)
    /\ baseChecked => currentDefCorner \in 0..3
    /\ (baseChecked /\ ~NoneNotIn(corners))
         => /\ corners[currentDefCorner + 1] = None
            /\ \A j \in 1..currentDefCorner : corners[j] # None

\* two points of a first pass are set, the third slot is next
C22_Witness ==
    /\ baseChecked /\ currentDefCorner = 2 /\ nClicks = 2
    /\ corners[2] # None /\ corners[3] = None

\* C23: while the rectified-view toggle is on no step changes the corner list
\* and no click reaches setCorner, also when a corner definition was begun
\* before the toggle was switched on.
C23_RectifiedKeepsCorners ==
    [][ straightChecked => (corners' = corners /\ nClicks' = nClicks) ]_vars

\* C24: the corner list written to the configuration changes only in the
\* setCorner call that takes the fourth point of a pass, and whenever the list
\* is complete and the button is not checked (also after a pass was abandoned
\* part-way) the list in memory is the list last written.
C24_PersistedMatches ==
    /\ [][ config'.corners # config.corners
           => (baseChecked /\ currentDefCorner = 3 /\ nClicks' = nClicks + 1) ]_vars
    /\ []((NoneNotIn(corners) /\ ~baseChecked) => corners = config.corners)

\* C25: once init_device has run, and after every call of was_fault,
\* read_attr_hardware, read_image or is_image_allowed, the device state is ON or
\* FAULT; in state ON self.camera exists and was opened by the last
\* init_device, so that read_attr_hardware never reads a missing self.camera;
\* and is_image_allowed returns False exactly when the state it leaves, after
\* the recovery of was_fault, is FAULT.
C25_OnOrFault ==
    /\ cam.state \in {"ON", "FAULT"}
    /\ cam.state = "ON" => cam.camera = "opened"
    /\ cam.path # "AttributeError"
    /\ cam.op = "is_image_allowed" => (cam.allowed <=> cam.state # "FAULT")

\* is_image_allowed has refused a device that had published a frame and could
\* not be recovered
C25_Witness ==
    /\ cam.op = "is_image_allowed"
    /\ ~cam.allowed
    /\ cam.state = "FAULT"
    /\ cam.frame # None

\* C26: read_attr_hardware publishes a frame only when camera.read() returned
\* one that differs from the frame published last; and a failed read, or a frame
\* equal to the one published last, is rejected (FAULT, release,
\* re-initialisation) and leaves self._image as it was.
C26_PublishOnlyNew ==
    [][ (cam'.op = "read_attr_hardware" /\ cam' # cam) =>
          /\ cam'.path = "published" =>
                (cam'.got # None /\ cam'.got # cam.frame /\ cam'.state = "ON")
          /\ (cam'.path \in {"rejected", "published"} /\ cam'.got \in {None, cam.frame}) =>
                (cam'.path = "rejected" /\ cam'.image = cam.image) ]_vars

====
